---------------------------- MODULE Spec2Model ----------------------------
(***************************************************************************)
(* A model of the company audit pipeline (src/pipeline.py), its model      *)
(* resolver (src/config/models.py) and its configuration                   *)
(* (src/config/settings.py).                                               *)
(*                                                                         *)
(* Text is a sequence of one-character strings.  Every Python value is a   *)
(* record [t, s, kids]: t is the type tag, s the characters of a str or    *)
(* the digits of an int, kids the items of a list or the members of a      *)
(* dict (a member has t = "mem", s = its key, kids = <<its value>>).       *)
(***************************************************************************)
EXTENDS Integers, Sequences, FiniteSets, TLC

(***************************************************************************)
(* Python values                                                           *)
(***************************************************************************)
NoneV == [t |-> "none", s |-> <<>>, kids |-> <<>>]
TrueV == [t |-> "bool", s |-> <<"1">>, kids |-> <<>>]
FalseV == [t |-> "bool", s |-> <<"0">>, kids |-> <<>>]
Str(cs) == [t |-> "str", s |-> cs, kids |-> <<>>]
Num(ds) == [t |-> "num", s |-> ds, kids |-> <<>>]
List(vs) == [t |-> "list", s |-> <<>>, kids |-> vs]
Dict(ms) == [t |-> "dict", s |-> <<>>, kids |-> ms]
Mem(k, v) == [t |-> "mem", s |-> k, kids |-> <<v>>]

IsStr(v) == v.t = "str"
IsDict(v) == v.t = "dict"
IsList(v) == v.t = "list"
IsStructured(v) == IsDict(v) \/ IsList(v)

\* Python truth value: None, False, 0, "", [] and {} are false.
Truthy(v) ==
    CASE v.t = "none" -> FALSE
      [] v.t = "bool" -> v = TrueV
      [] v.t = "num" -> \E i \in 1..Len(v.s) : v.s[i] # "0"
      [] v.t = "str" -> Len(v.s) > 0
      [] OTHER -> Len(v.kids) > 0

\* key in d
HasKey(d, k) == \E i \in 1..Len(d.kids) : d.kids[i].s = k
\* d[k]
GetKey(d, k) ==
    LET i == CHOOSE j \in 1..Len(d.kids) : d.kids[j].s = k
    IN d.kids[i].kids[1]

\* d[k] = v as the json decoder's dict(pairs) builds it: a repeated key keeps
\* its first position and takes the last value.
SetKey(ms, k, v) ==
    IF \E i \in 1..Len(ms) : ms[i].s = k
    THEN [i \in 1..Len(ms) |-> IF ms[i].s = k THEN Mem(k, v) ELSE ms[i]]
    ELSE Append(ms, Mem(k, v))

(***************************************************************************)
(* str methods                                                             *)
(***************************************************************************)
\* the characters str.strip() removes and the json decoder skips
WS == {" ", "\t", "\n", "\r"}

RECURSIVE LStrip(_)
LStrip(s) == IF Len(s) > 0 /\ s[1] \in WS THEN LStrip(Tail(s)) ELSE s

RECURSIVE RStrip(_)
RStrip(s) ==
    IF Len(s) > 0 /\ s[Len(s)] \in WS THEN RStrip(SubSeq(s, 1, Len(s) - 1)) ELSE s

\* s.strip()
Strip(s) == RStrip(LStrip(s))

\* s.startswith(p)
StartsWith(s, p) == Len(s) >= Len(p) /\ SubSeq(s, 1, Len(p)) = p
\* s.endswith(p)
EndsWith(s, p) == Len(s) >= Len(p) /\ SubSeq(s, Len(s) - Len(p) + 1, Len(s)) = p

\* s.find(c) and s.rfind(c) for one character, 1-based, 0 for Python's -1
Find(s, c) ==
    IF \E i \in 1..Len(s) : s[i] = c
    THEN CHOOSE i \in 1..Len(s) : s[i] = c /\ \A j \in 1..(i - 1) : s[j] # c
    ELSE 0
RFind(s, c) ==
    IF \E i \in 1..Len(s) : s[i] = c
    THEN CHOOSE i \in 1..Len(s) : s[i] = c /\ \A j \in (i + 1)..Len(s) : s[j] # c
    ELSE 0

\* s.split('\n')
RECURSIVE SplitLines(_)
SplitLines(s) ==
    LET i == Find(s, "\n")
    IN IF i = 0 THEN <<s>>
       ELSE <<SubSeq(s, 1, i - 1)>> \o SplitLines(SubSeq(s, i + 1, Len(s)))

\* '\n'.join(ls)
RECURSIVE JoinLines(_)
JoinLines(ls) ==
    IF Len(ls) = 0 THEN <<>>
    ELSE IF Len(ls) = 1 THEN ls[1]
    ELSE ls[1] \o <<"\n">> \o JoinLines(Tail(ls))

(***************************************************************************)
(* json.loads on a str, as CPython's decoder scans it.  The alphabet of    *)
(* the model has no backslash, sign, fraction or exponent characters.      *)
(***************************************************************************)
Digits == {"0", "1", "2", "3", "4", "5", "6", "7", "8", "9"}

\* what a scan returns: ok, the value and the index after it; a failed scan
\* is the decoder's JSONDecodeError
ScanFail == [ok |-> FALSE, val |-> NoneV, end |-> 0]
ScanOk(v, e) == [ok |-> TRUE, val |-> v, end |-> e]

\* WHITESPACE.match(s, i).end()
RECURSIVE SkipWS(_, _)
SkipWS(s, i) == IF i <= Len(s) /\ s[i] \in WS THEN SkipWS(s, i + 1) ELSE i

\* s[i:i+len(w)] == w
WordAt(s, i, w) == i + Len(w) - 1 <= Len(s) /\ SubSeq(s, i, i + Len(w) - 1) = w

\* scanstring(s, i): i is the index after the opening quote; a control
\* character (here the newline and the tab) inside a string is an error
RECURSIVE scanstring(_, _, _)
scanstring(s, i, acc) ==
    IF i > Len(s) THEN ScanFail
    ELSE IF s[i] = "\"" THEN ScanOk(Str(acc), i + 1)
    ELSE IF s[i] \in {"\n", "\t", "\r"} THEN ScanFail
    ELSE scanstring(s, i + 1, Append(acc, s[i]))

\* NUMBER_RE at i: 0 or a nonzero digit followed by digits
RECURSIVE DigitsEnd(_, _)
DigitsEnd(s, i) == IF i <= Len(s) /\ s[i] \in Digits THEN DigitsEnd(s, i + 1) ELSE i

match_number(s, i) ==
    IF s[i] = "0" THEN ScanOk(Num(<<"0">>), i + 1)
    ELSE LET e == DigitsEnd(s, i) IN ScanOk(Num(SubSeq(s, i, e - 1)), e)

RECURSIVE scan_once(_, _)
RECURSIVE JSONArray(_, _, _)
RECURSIVE JSONObject(_, _, _)

scan_once(s, i) ==
    IF i > Len(s) THEN ScanFail
    ELSE IF s[i] = "\"" THEN scanstring(s, i + 1, <<>>)
    ELSE IF s[i] = "{" THEN
        LET j == SkipWS(s, i + 1)
        IN IF j <= Len(s) /\ s[j] = "}" THEN ScanOk(Dict(<<>>), j + 1)
           ELSE IF j <= Len(s) /\ s[j] = "\"" THEN JSONObject(s, j + 1, <<>>)
           ELSE ScanFail
    ELSE IF s[i] = "[" THEN
        LET j == SkipWS(s, i + 1)
        IN IF j <= Len(s) /\ s[j] = "]" THEN ScanOk(List(<<>>), j + 1)
           ELSE JSONArray(s, j, <<>>)
    ELSE IF WordAt(s, i, <<"n", "u", "l", "l">>) THEN ScanOk(NoneV, i + 4)
    ELSE IF WordAt(s, i, <<"t", "r", "u", "e">>) THEN ScanOk(TrueV, i + 4)
    ELSE IF WordAt(s, i, <<"f", "a", "l", "s", "e">>) THEN ScanOk(FalseV, i + 5)
    ELSE IF s[i] \in Digits THEN match_number(s, i)
    ELSE ScanFail

\* the loop of JSONArray: i is where the next item starts
JSONArray(s, i, acc) ==
    LET item == scan_once(s, i)
    IN IF ~item.ok THEN ScanFail
       ELSE LET j == SkipWS(s, item.end)
                vs == Append(acc, item.val)
            IN IF j > Len(s) THEN ScanFail
               ELSE IF s[j] = "]" THEN ScanOk(List(vs), j + 1)
               ELSE IF s[j] = "," THEN JSONArray(s, SkipWS(s, j + 1), vs)
               ELSE ScanFail

\* the loop of JSONObject: i is the index after the opening quote of a key
JSONObject(s, i, acc) ==
    LET key == scanstring(s, i, <<>>)
    IN IF ~key.ok THEN ScanFail
       ELSE LET c == SkipWS(s, key.end)
            IN IF c > Len(s) \/ s[c] # ":" THEN ScanFail
               ELSE LET item == scan_once(s, SkipWS(s, c + 1))
                    IN IF ~item.ok THEN ScanFail
                       ELSE LET j == SkipWS(s, item.end)
                                ms == SetKey(acc, key.val.s, item.val)
                            IN IF j > Len(s) THEN ScanFail
                               ELSE IF s[j] = "}" THEN ScanOk(Dict(ms), j + 1)
                               ELSE IF s[j] = "," THEN
                                   LET q == SkipWS(s, j + 1)
                                   IN IF q <= Len(s) /\ s[q] = "\""
                                      THEN JSONObject(s, q + 1, ms)
                                      ELSE ScanFail
                               ELSE ScanFail

\* json.loads(s): one value, whitespace around it, nothing else
WholeText(s, r) == IF r.ok /\ SkipWS(s, r.end) = Len(s) + 1 THEN r ELSE ScanFail

json_loads(s) == WholeText(s, scan_once(s, SkipWS(s, 1)))

(***************************************************************************)
(* The recovery parser                                                     *)
(***************************************************************************)
\* the grave accent U+0060, a character no TLA+ string can hold
Backtick == "U+0060"
Fence == <<Backtick, Backtick, Backtick>>
FenceJson == Fence \o <<"j", "s", "o", "n">>

\* clean_json_string on a str
\* json_str[7:] after ```json, json_str[3:] after ```
StripOpening(a) ==
    IF StartsWith(a, FenceJson) THEN SubSeq(a, 8, Len(a))
    ELSE IF StartsWith(a, Fence) THEN SubSeq(a, 4, Len(a))
    ELSE a

\* json_str[:-3] before a closing ```
StripClosing(b) == IF EndsWith(b, Fence) THEN SubSeq(b, 1, Len(b) - 3) ELSE b

clean_json_string(s) == Strip(StripClosing(StripOpening(Strip(s))))

\* what one strategy of try_parse_json does: ok when it returns a value
NoValue == [ok |-> FALSE, val |-> NoneV]
Value(v) == [ok |-> TRUE, val |-> v]
OfLoads(r) == IF r.ok THEN Value(r.val) ELSE NoValue

\* Strategy 1: json.loads(json_str)
Strategy1(s) == OfLoads(json_loads(s))

\* Strategy 2: json.loads(cleaned) when cleaning changed the text
LoadsIfChanged(s, cleaned) ==
    IF cleaned # s THEN OfLoads(json_loads(cleaned)) ELSE NoValue

Strategy2(s) == LoadsIfChanged(s, clean_json_string(s))

\* Strategies 3 and 4: from the first open to the last close character
Between(cleaned, first, last) ==
    IF first # 0 /\ last # 0 /\ last > first
    THEN OfLoads(json_loads(SubSeq(cleaned, first, last)))
    ELSE NoValue

Extract(cleaned, open, close) ==
    Between(cleaned, Find(cleaned, open), RFind(cleaned, close))

Strategy3(s) == Extract(clean_json_string(s), "{", "}")
Strategy4(s) == Extract(clean_json_string(s), "[", "]")

\* Strategy 5: drop the blank lines and the lines that start with #
KeepLine(line) == Len(Strip(line)) > 0 /\ ~StartsWith(Strip(line), <<"#">>)

Strategy5(s) ==
    OfLoads(json_loads(JoinLines(SelectSeq(SplitLines(clean_json_string(s)), KeepLine))))

\* Strategy 6: the substrings cleaned[start:end], start ascending and then
\* end ascending; the first that loads as a dict or a list
\* isinstance(json.loads(cleaned[start:end]), (dict, list))
IsStructuredLoad(r) == r.ok /\ IsStructured(r.val)

\* a scan that takes any substring that loads, a scalar too
StructuredAt_AnyValue(cleaned, start, end) ==
    json_loads(SubSeq(cleaned, start, end)).ok

StructuredAt(cleaned, start, end) ==
    IsStructuredLoad(json_loads(SubSeq(cleaned, start, end)))

\* for end_idx in range(start_idx + 1, len(cleaned) + 1)
RECURSIVE ScanEnds(_, _, _)
ScanEnds(cleaned, start, end) ==
    IF end > Len(cleaned) THEN NoValue
    ELSE IF StructuredAt(cleaned, start, end)
         THEN OfLoads(json_loads(SubSeq(cleaned, start, end)))
         ELSE ScanEnds(cleaned, start, end + 1)

\* the result of the inner loop when it returned, else the next start_idx
FirstOf(r, next) == IF r.ok THEN r ELSE next

\* for start_idx in range(len(cleaned))
RECURSIVE ScanFrom(_, _)
ScanFrom(cleaned, start) ==
    IF start > Len(cleaned) THEN NoValue
    ELSE FirstOf(ScanEnds(cleaned, start, start), ScanFrom(cleaned, start + 1))

Strategy6(s) == ScanFrom(clean_json_string(s), 1)

\* the json.loads calls of the inner loop from end on, up to its return
RECURSIVE LoadsInEnds(_, _, _)
LoadsInEnds(cleaned, start, end) ==
    IF end > Len(cleaned) THEN 0
    ELSE IF StructuredAt(cleaned, start, end) THEN 1
         ELSE 1 + LoadsInEnds(cleaned, start, end + 1)

\* the json.loads calls of strategy 6 from start on, up to its return
RECURSIVE LoadsInScan(_, _)
LoadsInScan(cleaned, start) ==
    IF start > Len(cleaned) THEN 0
    ELSE IF ScanEnds(cleaned, start, start).ok
         THEN LoadsInEnds(cleaned, start, start)
         ELSE LoadsInEnds(cleaned, start, start) + LoadsInScan(cleaned, start + 1)

\* the first strategy that returns, 7 for the final return of the original
StrategyUsed(s) ==
    IF Strategy1(s).ok THEN 1
    ELSE IF Strategy2(s).ok THEN 2
    ELSE IF Strategy3(s).ok THEN 3
    ELSE IF Strategy4(s).ok THEN 4
    ELSE IF Strategy5(s).ok THEN 5
    ELSE IF Strategy6(s).ok THEN 6
    ELSE 7

\* the value of the strategy that returned, else what the code does next
OrElse(r, next) == IF r.ok THEN r.val ELSE next

\* a try_parse_json that tries the bracket extraction before the brace one
try_parse_json_BracketsFirst(v) ==
    IF IsDict(v) THEN v
    ELSE IF ~IsStr(v) THEN v
    ELSE OrElse(Strategy1(v.s), OrElse(Strategy2(v.s), OrElse(Strategy4(v.s),
         OrElse(Strategy3(v.s), OrElse(Strategy5(v.s), OrElse(Strategy6(v.s),
         Str(v.s)))))))

\* a try_parse_json that returns None for what is neither a dict nor a str
try_parse_json_NoneForOthers(v) ==
    IF IsDict(v) THEN v
    ELSE IF ~IsStr(v) THEN NoneV
    ELSE OrElse(Strategy1(v.s), OrElse(Strategy2(v.s), OrElse(Strategy3(v.s),
         OrElse(Strategy4(v.s), OrElse(Strategy5(v.s), OrElse(Strategy6(v.s),
         Str(v.s)))))))

\* a try_parse_json whose last line returns the cleaned text, not json_str
try_parse_json_ReturnsCleaned(v) ==
    IF IsDict(v) THEN v
    ELSE IF ~IsStr(v) THEN v
    ELSE OrElse(Strategy1(v.s), OrElse(Strategy2(v.s), OrElse(Strategy3(v.s),
         OrElse(Strategy4(v.s), OrElse(Strategy5(v.s), OrElse(Strategy6(v.s),
         Str(clean_json_string(v.s))))))))

\* try_parse_json(json_str): json_str is any Python value
try_parse_json(v) ==
    IF IsDict(v) THEN v
    ELSE IF ~IsStr(v) THEN v
    ELSE OrElse(Strategy1(v.s), OrElse(Strategy2(v.s), OrElse(Strategy3(v.s),
         OrElse(Strategy4(v.s), OrElse(Strategy5(v.s), OrElse(Strategy6(v.s),
         Str(v.s)))))))

(***************************************************************************)
(* str(value) and repr(value)                                              *)
(***************************************************************************)
\* repr of the characters of a str, inside the quotes
RECURSIVE EscapeChars(_)
EscapeChars(s) ==
    IF Len(s) = 0 THEN <<>>
    ELSE (CASE s[1] = "\n" -> <<"\\", "n">>
            [] s[1] = "\t" -> <<"\\", "t">>
            [] s[1] = "\r" -> <<"\\", "r">>
            [] s[1] = "\\" -> <<"\\", "\\">>
            [] OTHER -> <<s[1]>>) \o EscapeChars(Tail(s))

RECURSIVE PyRepr(_)
RECURSIVE ReprItems(_)
RECURSIVE ReprMembers(_)

\* repr(v); the alphabet has no single quote, so a str is quoted with it
PyRepr(v) ==
    CASE v.t = "none" -> <<"N", "o", "n", "e">>
      [] v.t = "bool" -> IF v = TrueV THEN <<"T", "r", "u", "e">>
                         ELSE <<"F", "a", "l", "s", "e">>
      [] v.t = "num" -> v.s
      [] v.t = "str" -> <<"'">> \o EscapeChars(v.s) \o <<"'">>
      [] v.t = "list" -> <<"[">> \o ReprItems(v.kids) \o <<"]">>
      [] v.t = "dict" -> <<"{">> \o ReprMembers(v.kids) \o <<"}">>

ReprItems(vs) ==
    IF Len(vs) = 0 THEN <<>>
    ELSE IF Len(vs) = 1 THEN PyRepr(vs[1])
    ELSE PyRepr(vs[1]) \o <<",", " ">> \o ReprItems(Tail(vs))

ReprMembers(ms) ==
    IF Len(ms) = 0 THEN <<>>
    ELSE LET m == PyRepr(Str(ms[1].s)) \o <<":", " ">> \o PyRepr(ms[1].kids[1])
         IN IF Len(ms) = 1 THEN m ELSE m \o <<",", " ">> \o ReprMembers(Tail(ms))

\* str(v)
PyStr(v) == IF IsStr(v) THEN v.s ELSE PyRepr(v)

\* len(v) is defined for str, list and dict and raises TypeError otherwise
HasLen(v) == v.t \in {"str", "list", "dict"}

(***************************************************************************)
(* The text extractor                                                      *)
(***************************************************************************)
TextKey == <<"t", "e", "x", "t">>
ContentKey == <<"c", "o", "n", "t", "e", "n", "t">>

\* a call that returns val, or raises when ok is false
Raises == [ok |-> FALSE, val |-> NoneV]
Returns(v) == [ok |-> TRUE, val |-> v]

\* text_parts of the loop over a list body
RECURSIVE text_parts(_)
text_parts(items) ==
    IF Len(items) = 0 THEN <<>>
    ELSE LET item == items[1]
             part == IF IsDict(item)
                     THEN IF HasKey(item, TextKey) THEN <<GetKey(item, TextKey)>>
                          ELSE IF HasKey(item, ContentKey)
                               THEN <<GetKey(item, ContentKey)>>
                               ELSE <<>>
                     ELSE IF IsStr(item) THEN <<item>> ELSE <<>>
         IN part \o text_parts(Tail(items))

\* '\n'.join(parts) raises TypeError unless every part is a str
JoinParts(parts) ==
    IF \A i \in 1..Len(parts) : IsStr(parts[i])
    THEN Returns(Str(JoinLines([i \in 1..Len(parts) |-> parts[i].s])))
    ELSE Raises

\* '\n'.join(text_parts) if text_parts else str(content)
JoinOrStr(content, parts) ==
    IF Len(parts) > 0 THEN JoinParts(parts) ELSE Returns(Str(PyStr(content)))

\* extract_text_content(content)
extract_text_content(content) ==
    IF IsStr(content) THEN Returns(content)
    ELSE IF IsList(content) THEN
        JoinOrStr(content, text_parts(content.kids))
    ELSE IF IsDict(content) /\ HasKey(content, TextKey)
        THEN Returns(GetKey(content, TextKey))
    ELSE IF IsDict(content) /\ HasKey(content, ContentKey)
        THEN Returns(GetKey(content, ContentKey))
    ELSE Returns(Str(PyStr(content)))

(***************************************************************************)
(* Configuration (src/config/settings.py) and the model resolver           *)
(* (src/config/models.py).  A specification string is a sequence of        *)
(* tokens in which ":" is the colon and every other token a run of other   *)
(* characters.                                                             *)
(***************************************************************************)
Providers == {"gemini", "openai", "cohere", "mistral", "groq"}

\* MODELS_CONFIG: enabled and model_name of every provider
MODELS_CONFIG ==
    [p \in Providers |->
        CASE p = "gemini" -> [enabled |-> TRUE, model_name |-> <<"gemini-3-flash-preview">>]
          [] p = "openai" -> [enabled |-> FALSE, model_name |-> <<"gpt-4">>]
          [] p = "cohere" -> [enabled |-> TRUE, model_name |-> <<"command-a-03-2025">>]
          [] p = "mistral" -> [enabled |-> FALSE, model_name |-> <<"mistral-large-latest">>]
          [] p = "groq" -> [enabled |-> TRUE, model_name |-> <<"llama-3.3-70b-versatile">>]]

\* STAGE_MODELS as shipped
STAGE_MODELS ==
    <<  <<"gemini">>,
        <<"groq", ":", "llama-3.3-70b-versatile">>,
        <<"groq", ":", "openai/gpt-oss-120b">>,
        <<"cohere">>  >>

\* a model instance, and None
Model(p, name) == [provider |-> p, model_name |-> name]
NoModel == [provider |-> "", model_name |-> <<>>]

\* model_spec.split(":", 1)
SplitSpec(model_spec) ==
    LET i == Find(model_spec, ":")
    IN IF i # 0
       THEN [provider |-> SubSeq(model_spec, 1, i - 1),
             model_name |-> SubSeq(model_spec, i + 1, Len(model_spec))]
       ELSE [provider |-> model_spec, model_name |-> <<>>]

\* the provider of a specification as a MODELS_CONFIG key, "" when its text
\* is not one token
ProviderOf(model_spec) ==
    LET p == SplitSpec(model_spec).provider
    IN IF Len(p) = 1 THEN p[1] ELSE ""

\* get_model_by_spec(model_spec); usable is the set of providers whose chat
\* class was imported and whose constructor does not raise
get_model_by_spec(model_spec, usable) ==
    IF Len(model_spec) = 0 THEN NoModel
    ELSE LET parts == SplitSpec(model_spec)
             provider == ProviderOf(model_spec)
         IN IF Len(parts.model_name) = 0 /\ provider \notin DOMAIN MODELS_CONFIG
            THEN NoModel
            ELSE IF Len(parts.model_name) = 0 /\ ~MODELS_CONFIG[provider].enabled
            THEN NoModel
            ELSE LET model_name == IF Len(parts.model_name) = 0
                                   THEN MODELS_CONFIG[provider].model_name
                                   ELSE parts.model_name
                 IN IF provider \in Providers /\ provider \in usable
                    THEN Model(provider, model_name)
                    ELSE NoModel

\* get_models(): the providers that are enabled and usable
get_models(usable) == {p \in Providers : MODELS_CONFIG[p].enabled /\ p \in usable}

(***************************************************************************)
(* State                                                                   *)
(***************************************************************************)
VARIABLES
    usable,           \* the providers whose chat class imports and constructs
    stage_specs,      \* STAGE_MODELS in force: the specification of each stage
    pc,               \* "new", "raised", "idle", "stage"; "wrapper", "parser",
                      \* "extractor" and the positions after them
    stage_model,      \* self.stage_k_model
    stage_results,    \* self.stage_results, a dict
    company_details,  \* locals of run_full_pipeline
    questions,
    answers,
    stage,            \* the stage in execution, 0 before the first
    result,           \* what run_full_pipeline returned: "none", "True", "False"
    runs,             \* calls of run_full_pipeline so far
    invoked,          \* the stages whose oracle the current run invoked, in order
    writes,           \* the keys written in the current run, in order
    responded,        \* the stages whose wrapper call returned a response
    reply,            \* the content model.invoke returned last, None if it raised
    failed_stage,     \* the stage whose wrapper call returned None, 0 if none
    prompt,           \* arguments and locals of invoke_model_with_retry
    max_retries,
    initial_wait,
    attempt,
    wpc,              \* "off", "loop", "sleep", "returned"
    response,         \* what the wrapper returned: a message or None
    attempts,         \* model.invoke calls of the current wrapper call
    failures,         \* those that raised
    waits,            \* the time.sleep durations of the current wrapper call
    slept,            \* their total
    json_str,         \* argument and return value of a try_parse_json call
    parsed,
    content,          \* argument and outcome of an extract_text_content call
    extracted,
    saved,            \* results_to_save as save_results wrote it last, None before
    printed           \* how print_summary ended last: "none", "returned", "raised"

envVars == <<usable, stage_specs>>
pipeVars == <<pc, stage_model, stage_results, company_details, questions, answers,
              stage, result, runs, failed_stage>>
logVars == <<invoked, writes, responded, reply>>
wrapVars == <<prompt, max_retries, initial_wait, attempt, wpc, response, attempts,
              failures, waits, slept>>
parseVars == <<json_str, parsed>>
methodVars == <<content, extracted, saved, printed>>
vars == <<envVars, pipeVars, logVars, wrapVars, parseVars, methodVars>>

(***************************************************************************)
(* Bounds and input sets                                                   *)
(***************************************************************************)
MaxRuns == 1
MaxRetries == 4
MaxInitialWait == 3
MaxChunks == 3
MaxComments == 1
MaxProse == 2
MaxFragments == 2
MaxReruns == 1
MaxCalls == 2

\* a response message with its content
Msg(c) == [t |-> "msg", s |-> <<>>, kids |-> <<c>>]
ContentOf(m) == m.kids[1]

ResponsesKey == <<"r", "e", "s", "p", "o", "n", "s", "e", "s">>

\* the response bodies an oracle returns
Contents ==
    { Str(<<"x">>),
      Str(<<>>),
      Str(<<"{", "}">>),
      Str(<<"[", "]">>),
      Str(Fence \o <<"j", "s", "o", "n", "\n", "{", "\"", "a", "\"", ":", "[", "1", "]", "}",
                     "\n">> \o Fence),
      Str(<<"n", "u", "l", "l">>),
      List(<<Str(<<"[", "1">>), Dict(<<Mem(TextKey, Str(<<"]">>))>>)>>),
      Dict(<<Mem(TextKey, Num(<<"7">>))>>) }

\* the response bodies of the runs of one instance: a text no strategy
\* parses, a quoted text, an object whose responses have no length, and a
\* list whose fragment holds a number as its text
InstanceContents ==
    { Str(<<"x">>),
      Str(<<"\"", "x", "\"">>),
      Str(<<"{", "\"">> \o ResponsesKey \o <<"\"", ":", "n", "u", "l", "l", "}">>),
      List(<<Dict(<<Mem(TextKey, Num(<<"7">>))>>)>>) }

\* the specifications a stage may be configured with
SpecChoices ==
    { <<"gemini">>, <<"groq", ":", "llama-3.3-70b-versatile">>,
      <<"openai">>, <<"openai", ":", "gpt-4">>, <<"openai", ":">>,
      <<"claude">>, <<"claude", ":", "opus">>, <<>> }

\* STAGE_MODELS as shipped, or with the specification of one stage replaced
StageModelChoices ==
    {STAGE_MODELS} \cup
    { [STAGE_MODELS EXCEPT ![k] = sp] : k \in 1..4, sp \in SpecChoices }

\* the pieces a text given to try_parse_json is made of
Chunks ==
    { <<"{">>, <<"}">>, <<"[">>, <<"]">>, <<",">>, <<"1">>, <<"\"">>, <<"x">>,
      <<"\n">>, <<"#">>, Fence, <<"j", "s", "o", "n">>, <<"n", "u", "l", "l">>,
      <<"\"", "a", "\"", ":">> }

\* the texts of at most n pieces
RECURSIVE Texts(_)
Texts(n) ==
    IF n = 0 THEN {<<>>}
    ELSE Texts(n - 1) \cup {txt \o c : txt \in Texts(n - 1), c \in Chunks}

\* well-formed object and array documents, each as its lines
DocLines ==
    { << <<"{", "}">> >>,
      << <<"[", "1", "]">> >>,
      << <<"{", "\"", "a", "\"", ":", "1", "}">> >>,
      << <<"[", "{", "}", "]">> >>,
      << <<"{", "\"", "a", "\"", ":", "[", "1", "]", "}">> >>,
      << <<"[", "1", ",">>, <<"2", "]">> >>,
      << <<"{", "\"", "a", "\"", ":">>, <<"[", "1", "]", "}">> >> }

\* the value a document denotes
DocValue(ls) == json_loads(JoinLines(ls)).val

\* a whole line that begins with #
CommentLines == { <<"#", "x">> }

\* ls with the line l put after its first p lines
InsertAt(ls, p, l) == SubSeq(ls, 1, p) \o <<l>> \o SubSeq(ls, p + 1, Len(ls))

\* ls with one more comment line, at any place
OneMoreComment(ls) == { InsertAt(ls, p, c) : p \in 0..Len(ls), c \in CommentLines }

\* the lines of a document with at most n comment lines interleaved
RECURSIVE WithComments(_, _)
WithComments(ls, n) ==
    IF n = 0 THEN {ls}
    ELSE WithComments(ls, n - 1) \cup
         UNION { OneMoreComment(x) : x \in WithComments(ls, n - 1) }

\* the leading and the trailing fence lines a response may carry: none, or
\* the marker on a line of its own
LeadingFences == { <<>>, <<FenceJson>>, <<Fence>> }
TrailingFences == { <<>>, <<Fence>> }

\* a document, fenced or not, comment lines interleaved or not, as the text
\* an oracle returns, with the document it was made from
WrappedOf(d) ==
    { [text |-> JoinLines(o \o x \o c), doc |-> d] :
        o \in LeadingFences, c \in TrailingFences, x \in WithComments(d, MaxComments) }

WrappedCases == UNION { WrappedOf(d) : d \in DocLines }

\* the pieces of the prose around an embedded object
ProsePieces == { <<"x">>, <<" ">>, <<"}">> }

\* the prose of at most n pieces
RECURSIVE Prose(_)
Prose(n) ==
    IF n = 0 THEN {<<>>}
    ELSE Prose(n - 1) \cup {txt \o c : txt \in Prose(n - 1), c \in ProsePieces}

\* the texts of well-formed objects
ObjectTexts == { JoinLines(d) : d \in {e \in DocLines : e[1][1] = "{"} }

\* an object between a prefix and a suffix of prose, with the object
EmbeddedCases ==
    { [text |-> a \o o \o b, obj |-> o, prefix |-> a, suffix |-> b] :
        o \in ObjectTexts, a \in Prose(MaxProse), b \in Prose(MaxProse) }

\* the values a response body is made of
Leaves == { Str(<<"x">>), Str(<<>>), Num(<<"7">>), NoneV, List(<<>>) }

\* keyed bags: one value under text, under content or under another key,
\* none, and both keys at once
Bags ==
    { Dict(<<Mem(k, v)>>) : k \in {TextKey, ContentKey, <<"x">>}, v \in Leaves } \cup
    { Dict(<<>>),
      Dict(<<Mem(ContentKey, Str(<<"x">>)), Mem(TextKey, Str(<<>>))>>) }

Fragments == Leaves \cup Bags

\* the sequences of at most n fragments
RECURSIVE FragmentSeqs(_)
FragmentSeqs(n) ==
    IF n = 0 THEN {<<>>}
    ELSE FragmentSeqs(n - 1) \cup
         {Append(fs, f) : fs \in FragmentSeqs(n - 1), f \in Fragments}

\* the response bodies: a str, a list of fragments, a keyed bag, anything else
Bodies == Fragments \cup { List(fs) : fs \in FragmentSeqs(MaxFragments) }

\* every provider usable; langchain_openai missing; no cohere key; nothing
UsableChoices == {Providers, Providers \ {"openai"}, Providers \ {"cohere"}, {}}

(***************************************************************************)
(* invoke_model_with_retry                                                 *)
(***************************************************************************)
\* the call invoke_model_with_retry(model, prompt, name, n, w)
EnterWrapper(p, n, w) ==
    /\ prompt' = p
    /\ max_retries' = n
    /\ initial_wait' = w
    /\ attempt' = 0
    /\ wpc' = "loop"
    /\ response' = NoneV
    /\ attempts' = 0
    /\ failures' = 0
    /\ waits' = <<>>
    /\ slept' = 0

\* for attempt in range(max_retries)
InRange(a, n) == a < n

\* a guard that gives up one attempt early
more_attempts_OneShort(a, n) == a < n - 2

\* if attempt < max_retries - 1
more_attempts(a, n) == a < n - 1

\* a backoff that grows linearly: initial_wait * (attempt + 1)
wait_time_Linear(w, a) == w * (a + 1)

\* initial_wait * (2 ** attempt)
wait_time(w, a) == w * (2 ^ a)

\* one more oracle invocation of the stage in execution
CountCall ==
    invoked' = IF stage \in 1..4 /\ (Len(invoked) = 0 \/ invoked[Len(invoked)] # stage)
               THEN Append(invoked, stage)
               ELSE invoked

\* a wrapper that sleeps after the successful attempt before it returns
invoke_returns_ThenSleeps(c) ==
    /\ wpc = "loop"
    /\ InRange(attempt, max_retries)
    /\ attempts' = attempts + 1
    /\ response' = Msg(c)
    /\ reply' = c
    /\ wpc' = "returned"
    /\ CountCall
    /\ waits' = Append(waits, initial_wait * (2 ^ attempt))
    /\ slept' = slept + initial_wait * (2 ^ attempt)
    /\ UNCHANGED <<prompt, max_retries, initial_wait, attempt, failures>>
    /\ UNCHANGED <<envVars, methodVars, pipeVars, writes, responded, parseVars>>

\* model.invoke returns a response with content c: return response
invoke_returns(c) ==
    /\ wpc = "loop"
    /\ InRange(attempt, max_retries)
    /\ attempts' = attempts + 1
    /\ response' = Msg(c)
    /\ reply' = c
    /\ wpc' = "returned"
    /\ CountCall
    /\ UNCHANGED <<prompt, max_retries, initial_wait, attempt, failures, waits, slept>>
    /\ UNCHANGED <<envVars, methodVars, pipeVars, writes, responded, parseVars>>

\* model.invoke raises: the except branch, up to time.sleep or return None
invoke_raises ==
    /\ wpc = "loop"
    /\ InRange(attempt, max_retries)
    /\ attempts' = attempts + 1
    /\ failures' = failures + 1
    /\ IF more_attempts(attempt, max_retries)
       THEN wpc' = "sleep" /\ response' = response
       ELSE wpc' = "returned" /\ response' = NoneV
    /\ reply' = NoneV
    /\ CountCall
    /\ UNCHANGED <<prompt, max_retries, initial_wait, attempt, waits, slept>>
    /\ UNCHANGED <<envVars, methodVars, pipeVars, writes, responded, parseVars>>

\* time.sleep(wait_time) ends and the loop goes to the next attempt
backoff_sleep ==
    /\ wpc = "sleep"
    /\ waits' = Append(waits, wait_time(initial_wait, attempt))
    /\ slept' = slept + wait_time(initial_wait, attempt)
    /\ attempt' = attempt + 1
    /\ wpc' = "loop"
    /\ UNCHANGED <<prompt, max_retries, initial_wait, response, attempts, failures>>
    /\ UNCHANGED <<envVars, methodVars, pipeVars, logVars, parseVars>>

\* the loop ends without a return: the final return None
loop_exhausted ==
    /\ wpc = "loop"
    /\ ~InRange(attempt, max_retries)
    /\ response' = NoneV
    /\ wpc' = "returned"
    /\ UNCHANGED <<prompt, max_retries, initial_wait, attempt, attempts, failures, waits, slept>>
    /\ UNCHANGED <<envVars, methodVars, pipeVars, logVars, parseVars>>

(***************************************************************************)
(* CompanyAuditPipeline: the stage operations                              *)
(***************************************************************************)
CompanyDetailsKey == <<"company_details">>
QuestionsKey == <<"questions">>
AnswersKey == <<"answers">>
ScoresKey == <<"scores">>
StageKeys == <<CompanyDetailsKey, QuestionsKey, AnswersKey, ScoresKey>>

OverallSummaryKey ==
    <<"o", "v", "e", "r", "a", "l", "l", "_", "s", "u", "m", "m", "a", "r", "y">>

\* what the try block of a stage leaves: the value the stage returns, the
\* result mapping, and whether the stage wrote its key
StageOut(ret, sr, wrote) == [ret |-> ret, sr |-> sr, wrote |-> wrote]

\* self.stage_results[key] = v
Store(sr, key, v) == Dict(SetKey(sr.kids, key, v))

\* the report of stage 1: len(details) raises for a value without a length
Stage1Out(details, stored) ==
    IF HasLen(details) THEN StageOut(details, stored, TRUE)
    ELSE StageOut(NoneV, stored, TRUE)

\* the report of stage 2 raises nothing
Stage2Out(questions_json, stored) == StageOut(questions_json, stored, TRUE)

\* the report of stage 3: len(answers_json.get("responses", [])) raises for
\* a value without a length
Stage3Out(answers_json, stored) ==
    IF /\ IsDict(answers_json)
       /\ HasKey(answers_json, ResponsesKey)
       /\ ~HasLen(GetKey(answers_json, ResponsesKey))
    THEN StageOut(NoneV, stored, TRUE)
    ELSE StageOut(answers_json, stored, TRUE)

\* the report of stage 4: summary.get raises unless
\* scores_json["overall_summary"] is a dict
Stage4Out(scores_json, stored) ==
    IF /\ IsDict(scores_json)
       /\ HasKey(scores_json, OverallSummaryKey)
       /\ ~IsDict(GetKey(scores_json, OverallSummaryKey))
    THEN StageOut(NoneV, stored, TRUE)
    ELSE StageOut(scores_json, stored, TRUE)

\* a stage 1 that returns the extracted text and stores nothing
Stage1Store_ReturnsUnstored(details, sr) ==
    IF ~details.ok THEN StageOut(NoneV, sr, FALSE)
    ELSE StageOut(details.val, sr, FALSE)

\* stage 1 stores the extracted text as it is
Stage1Store(details, sr) ==
    IF ~details.ok THEN StageOut(NoneV, sr, FALSE)
    ELSE Stage1Out(details.val, Store(sr, CompanyDetailsKey, details.val))

\* stages 2 to 4 with stage 2 writing under the key of stage 4
StoreParsed_UnderScores(k, value, sr) ==
    CASE k = 2 -> Stage2Out(value, Store(sr, ScoresKey, value))
      [] k = 3 -> Stage3Out(value, Store(sr, AnswersKey, value))
      [] k = 4 -> Stage4Out(value, Store(sr, ScoresKey, value))

\* stages 2 to 4 store try_parse_json of the extracted text
StoreParsed(k, value, sr) ==
    CASE k = 2 -> Stage2Out(value, Store(sr, QuestionsKey, value))
      [] k = 3 -> Stage3Out(value, Store(sr, AnswersKey, value))
      [] k = 4 -> Stage4Out(value, Store(sr, ScoresKey, value))

StageParse(k, text, sr) ==
    IF ~text.ok THEN StageOut(NoneV, sr, FALSE)
    ELSE StoreParsed(k, try_parse_json(text.val), sr)

\* stage_1_company_details from the return of the wrapper on
stage_1_body(resp, sr) ==
    IF resp = NoneV THEN StageOut(NoneV, sr, FALSE)
    ELSE Stage1Store(extract_text_content(ContentOf(resp)), sr)

\* a stage 2 that returns an error text when the wrapper returned None
stage_2_body_ErrorText(resp, sr) ==
    IF resp = NoneV THEN StageOut(Str(<<"x">>), sr, FALSE)
    ELSE StageParse(2, extract_text_content(ContentOf(resp)), sr)

\* a stage 2 that writes its key before it looks at the wrapper's return
stage_2_body_WritesFirst(resp, sr) ==
    IF resp = NoneV THEN StageOut(NoneV, Store(sr, QuestionsKey, NoneV), TRUE)
    ELSE StageParse(2, extract_text_content(ContentOf(resp)), sr)

\* stage_2_generate_questions from the return of the wrapper on
stage_2_body(resp, sr) ==
    IF resp = NoneV THEN StageOut(NoneV, sr, FALSE)
    ELSE StageParse(2, extract_text_content(ContentOf(resp)), sr)

\* a stage 3 that empties the mapping when the wrapper returned None
stage_3_body_ClearsOnFailure(resp, sr) ==
    IF resp = NoneV THEN StageOut(NoneV, Dict(<<>>), FALSE)
    ELSE StageParse(3, extract_text_content(ContentOf(resp)), sr)

\* stage_3_answer_questions from the return of the wrapper on
stage_3_body(resp, sr) ==
    IF resp = NoneV THEN StageOut(NoneV, sr, FALSE)
    ELSE StageParse(3, extract_text_content(ContentOf(resp)), sr)

\* stage_4_score_results from the return of the wrapper on
stage_4_body(resp, sr) ==
    IF resp = NoneV THEN StageOut(NoneV, sr, FALSE)
    ELSE StageParse(4, extract_text_content(ContentOf(resp)), sr)

\* json.dumps(v, indent=2): the characters json.dumps escapes in a str
RECURSIVE JsonEscape(_)
JsonEscape(s) ==
    IF Len(s) = 0 THEN <<>>
    ELSE (CASE s[1] = "\n" -> <<"\\", "n">>
            [] s[1] = "\t" -> <<"\\", "t">>
            [] s[1] = "\r" -> <<"\\", "r">>
            [] s[1] = "\\" -> <<"\\", "\\">>
            [] s[1] = "\"" -> <<"\\", "\"">>
            [] OTHER -> <<s[1]>>) \o JsonEscape(Tail(s))

\* the indentation of nesting level n
Indent(n) == [i \in 1..(2 * n) |-> " "]

RECURSIVE JsonDumps(_, _)
RECURSIVE DumpItems(_, _)
RECURSIVE DumpMembers(_, _)

\* json.dumps(v, indent=2) at nesting level n
JsonDumps(v, n) ==
    CASE v.t = "none" -> <<"n", "u", "l", "l">>
      [] v.t = "bool" -> IF v = TrueV THEN <<"t", "r", "u", "e">>
                         ELSE <<"f", "a", "l", "s", "e">>
      [] v.t = "num" -> v.s
      [] v.t = "str" -> <<"\"">> \o JsonEscape(v.s) \o <<"\"">>
      [] v.t = "list" ->
            IF Len(v.kids) = 0 THEN <<"[", "]">>
            ELSE <<"[", "\n">> \o DumpItems(v.kids, n + 1) \o <<"\n">> \o
                 Indent(n) \o <<"]">>
      [] v.t = "dict" ->
            IF Len(v.kids) = 0 THEN <<"{", "}">>
            ELSE <<"{", "\n">> \o DumpMembers(v.kids, n + 1) \o <<"\n">> \o
                 Indent(n) \o <<"}">>

DumpItems(vs, n) ==
    Indent(n) \o JsonDumps(vs[1], n) \o
    (IF Len(vs) = 1 THEN <<>> ELSE <<",", "\n">> \o DumpItems(Tail(vs), n))

DumpMembers(ms, n) ==
    Indent(n) \o <<"\"">> \o JsonEscape(ms[1].s) \o <<"\"", ":", " ">> \o
    JsonDumps(ms[1].kids[1], n) \o
    (IF Len(ms) = 1 THEN <<>> ELSE <<",", "\n">> \o DumpMembers(Tail(ms), n))

\* json.dumps(x, indent=2) if isinstance(x, dict) else str(x)
as_text(x) == IF IsDict(x) THEN JsonDumps(x, 0) ELSE PyStr(x)

\* a prompt is the sequence of the pieces of its f-string: the runs of
\* template text, each under a name, and the texts interpolated between them
Template(name) == [fixed |-> TRUE, text |-> name]
Interpolated(text) == [fixed |-> FALSE, text |-> text]

\* the prompt of stage 1; self.company_name is the same in every run
prompt_1 == <<Template(<<"stage_1">>)>>

\* the prompt of stage 2: {company_details}
prompt_2(cd) ==
    <<Template(<<"stage_2", "head">>), Interpolated(PyStr(cd)),
      Template(<<"stage_2", "tail">>)>>

\* the prompt of stage 3: {company_details} and {questions_text}
prompt_3(cd, q) ==
    <<Template(<<"stage_3", "head">>), Interpolated(PyStr(cd)),
      Template(<<"stage_3", "middle">>), Interpolated(as_text(q)),
      Template(<<"stage_3", "tail">>)>>

\* the prompt of stage 4: {answers_text}; questions_text is computed and
\* not interpolated
prompt_4(q, a) ==
    <<Template(<<"stage_4", "head">>), Interpolated(as_text(a)),
      Template(<<"stage_4", "tail">>)>>

\* the checks a stage makes before it builds its prompt
stage_1_ready == stage_model[1] # NoModel
stage_2_ready(cd) == stage_model[2] # NoModel /\ Truthy(cd)
stage_3_ready(cd, q) == stage_model[3] # NoModel /\ Truthy(q) /\ Truthy(cd)
stage_4_ready(q, a) == stage_model[4] # NoModel /\ Truthy(a)

(***************************************************************************)
(* CompanyAuditPipeline: construction and run_full_pipeline                *)
(***************************************************************************)
\* get_model_by_spec for the four stages
ResolveStages == [k \in 1..4 |-> get_model_by_spec(stage_specs[k], usable)]

\* a validation that leaves the model of stage 4 out
ConstructionRaises_ThreeStages ==
    \/ get_models(usable) = {}
    \/ \E k \in 1..3 : ResolveStages[k] = NoModel

\* if not all([...]): raise; get_models() raises when it finds no model
ConstructionRaises ==
    \/ get_models(usable) = {}
    \/ \E k \in 1..4 : ResolveStages[k] = NoModel

\* CompanyAuditPipeline(...) returns the instance
construct_ok ==
    /\ pc = "new"
    /\ ~ConstructionRaises
    /\ stage_model' = ResolveStages
    /\ stage_results' = Dict(<<>>)
    /\ pc' = "idle"
    /\ UNCHANGED <<company_details, questions, answers, stage, result, runs, failed_stage>>
    /\ UNCHANGED <<envVars, methodVars, logVars, wrapVars, parseVars>>

\* CompanyAuditPipeline(...) raises: there is no instance to run
construct_raises ==
    /\ pc = "new"
    /\ ConstructionRaises
    /\ pc' = "raised"
    /\ stage_model' = IF get_models(usable) = {} THEN stage_model ELSE ResolveStages
    /\ UNCHANGED <<stage_results, company_details, questions, answers,
                   stage, result, runs, failed_stage>>
    /\ UNCHANGED <<envVars, methodVars, logVars, wrapVars, parseVars>>

\* a run that ignores what the stages return
Halts_Never(v) == FALSE

\* if not <stage result>: return False
Halts(v) == ~Truthy(v)

\* a run that hangs after a failed stage instead of returning False
ReturnFalse_Hangs ==
    /\ pc' = pc
    /\ result' = result
    /\ wpc' = "off"
    /\ UNCHANGED <<prompt, max_retries, initial_wait, attempt, response>>
    /\ UNCHANGED <<attempts, failures, waits, slept>>

\* run_full_pipeline returns False
ReturnFalse ==
    /\ pc' = "idle"
    /\ result' = "False"
    /\ UNCHANGED wrapVars

\* run_full_pipeline calls stage k: the stage returns None from its entry
\* checks, or builds its prompt and calls the wrapper
CallStage(k, ready, p, w) ==
    /\ stage' = k
    /\ IF ready
       THEN pc' = "stage" /\ result' = result /\ EnterWrapper(p, 3, w)
       ELSE ReturnFalse

\* what a returning stage leaves in the instance and in the logs
Leave(k, out) ==
    /\ stage_results' = out.sr
    /\ writes' = IF out.wrote THEN Append(writes, StageKeys[k]) ELSE writes
    /\ failed_stage' = IF response = NoneV THEN k ELSE failed_stage
    /\ responded' = IF response = NoneV THEN responded ELSE Append(responded, k)

\* the body of run_full_pipeline up to the wrapper call of stage 1
StartRun ==
    /\ runs' = runs + 1
    /\ result' = "none"
    /\ invoked' = <<>>
    /\ writes' = <<>>
    /\ responded' = <<>>
    /\ reply' = NoneV
    /\ failed_stage' = 0
    /\ company_details' = NoneV
    /\ questions' = NoneV
    /\ answers' = NoneV
    /\ stage' = 1
    /\ pc' = "stage"
    /\ stage_1_ready
    /\ EnterWrapper(prompt_1, 3, 2)
    /\ UNCHANGED <<stage_model, stage_results>>
    /\ UNCHANGED <<envVars, methodVars, parseVars>>

\* pipeline.run_full_pipeline() up to the wrapper call of stage 1
run_full_pipeline ==
    /\ pc = "idle"
    /\ runs < MaxRuns
    /\ StartRun

\* a further pipeline.run_full_pipeline() on an instance that has run
run_full_pipeline_again ==
    /\ pc = "idle"
    /\ runs >= 1
    /\ runs < 1 + MaxReruns
    /\ StartRun

(***************************************************************************)
(* save_results and print_summary                                          *)
(***************************************************************************)
RawContentKey == <<"raw_content">>
NoteKey == <<"_note">>
NoteText == <<"Failed to parse JSON, stored as string">>

\* {"raw_content": parsed, "_note": "Failed to parse JSON, stored as string"}
Wrapper(text) == Dict(<<Mem(RawContentKey, text), Mem(NoteKey, Str(NoteText))>>)

\* if isinstance(parsed, str): the wrapper, else: parsed
WrapIfText(parsed_value) ==
    IF IsStr(parsed_value) THEN Wrapper(parsed_value) ELSE parsed_value

\* what the loop of save_results puts under a key whose value is v
PersistedValue(v) == IF IsStr(v) THEN WrapIfText(try_parse_json(v)) ELSE v

\* results_to_save after the loop over self.stage_results.items()
results_to_save(sr) ==
    Dict([i \in 1..Len(sr.kids) |->
             Mem(sr.kids[i].s, PersistedValue(sr.kids[i].kids[1]))])

\* pipeline.save_results(): the document is written, or makedirs, open or
\* json.dump raises, the except branch returns None and nothing is written
save_results ==
    /\ pc = "idle"
    /\ \E written \in BOOLEAN :
          saved' = IF written THEN results_to_save(stage_results) ELSE saved
    /\ UNCHANGED <<envVars, pipeVars, logVars, wrapVars, parseVars>>
    /\ UNCHANGED <<content, extracted, printed>>

\* for resp in responses: resp.get(...) and sentiments[sentiment] raise for
\* an item that is not a dict or whose sentiment or confidence is unhashable
SentimentKey == <<"sentiment">>
ConfidenceKey == <<"confidence">>
Unhashable(v) == v.t \in {"list", "dict"}
CountsRaise(resp) ==
    \/ ~IsDict(resp)
    \/ HasKey(resp, SentimentKey) /\ Unhashable(GetKey(resp, SentimentKey))
    \/ HasKey(resp, ConfidenceKey) /\ Unhashable(GetKey(resp, ConfidenceKey))

\* the items a for loop over v sees: the items of a list, the keys of a
\* dict, the characters of a str
Iterated(v) ==
    CASE v.t = "list" -> {v.kids[i] : i \in 1..Len(v.kids)}
      [] v.t = "dict" -> {Str(v.kids[i].s) : i \in 1..Len(v.kids)}
      [] v.t = "str" -> {Str(<<v.s[i]>>) : i \in 1..Len(v.s)}
      [] OTHER -> {}

\* the stage 3 part of print_summary raises
AnswersRaise(a) ==
    /\ IsDict(a)
    /\ HasKey(a, ResponsesKey)
    /\ \/ ~HasLen(GetKey(a, ResponsesKey))
       \/ \E resp \in Iterated(GetKey(a, ResponsesKey)) : CountsRaise(resp)

\* the stage 4 part of print_summary raises
ScoresRaise(sc) ==
    /\ IsDict(sc)
    /\ HasKey(sc, OverallSummaryKey)
    /\ ~IsDict(GetKey(sc, OverallSummaryKey))

\* print_summary raises on the mapping sr
SummaryRaises(sr) ==
    \/ HasKey(sr, CompanyDetailsKey) /\ ~HasLen(GetKey(sr, CompanyDetailsKey))
    \/ HasKey(sr, AnswersKey) /\ AnswersRaise(GetKey(sr, AnswersKey))
    \/ HasKey(sr, ScoresKey) /\ ScoresRaise(GetKey(sr, ScoresKey))

\* pipeline.print_summary() reads the mapping and returns or raises
print_summary ==
    /\ pc = "idle"
    /\ printed' = IF SummaryRaises(stage_results) THEN "raised" ELSE "returned"
    /\ UNCHANGED <<envVars, pipeVars, logVars, wrapVars, parseVars>>
    /\ UNCHANGED <<content, extracted, saved>>

\* stage 1 from the return of its wrapper call, then stage 2 up to its own
stage_1_return ==
    /\ pc = "stage" /\ stage = 1 /\ wpc = "returned"
    /\ \E out \in {stage_1_body(response, stage_results)} :
          /\ Leave(1, out)
          /\ company_details' = out.ret
          /\ IF Halts(out.ret)
             THEN ReturnFalse /\ stage' = stage
             ELSE CallStage(2, stage_2_ready(out.ret), prompt_2(out.ret), 2)
    /\ UNCHANGED <<questions, answers, stage_model, runs, invoked, reply>>
    /\ UNCHANGED <<envVars, methodVars, parseVars>>

\* stage 2 from the return of its wrapper call, then stage 3 up to its own
stage_2_return ==
    /\ pc = "stage" /\ stage = 2 /\ wpc = "returned"
    /\ \E out \in {stage_2_body(response, stage_results)} :
          /\ Leave(2, out)
          /\ questions' = out.ret
          /\ IF Halts(out.ret)
             THEN ReturnFalse /\ stage' = stage
             ELSE CallStage(3, stage_3_ready(company_details, out.ret),
                            prompt_3(company_details, out.ret), 3)
    /\ UNCHANGED <<company_details, answers, stage_model, runs, invoked, reply>>
    /\ UNCHANGED <<envVars, methodVars, parseVars>>

\* stage 3 from the return of its wrapper call, then stage 4 up to its own
stage_3_return ==
    /\ pc = "stage" /\ stage = 3 /\ wpc = "returned"
    /\ \E out \in {stage_3_body(response, stage_results)} :
          /\ Leave(3, out)
          /\ answers' = out.ret
          /\ IF Halts(out.ret)
             THEN ReturnFalse /\ stage' = stage
             ELSE CallStage(4, stage_4_ready(questions, out.ret),
                            prompt_4(questions, out.ret), 2)
    /\ UNCHANGED <<company_details, questions, stage_model, runs, invoked, reply>>
    /\ UNCHANGED <<envVars, methodVars, parseVars>>

\* stage 4 from the return of its wrapper call, then return True
stage_4_return ==
    /\ pc = "stage" /\ stage = 4 /\ wpc = "returned"
    /\ \E out \in {stage_4_body(response, stage_results)} :
          /\ Leave(4, out)
          /\ IF Halts(out.ret)
             THEN ReturnFalse
             ELSE pc' = "idle" /\ result' = "True" /\ UNCHANGED wrapVars
    /\ UNCHANGED <<company_details, questions, answers, stage, stage_model, runs, invoked, reply>>
    /\ UNCHANGED <<envVars, methodVars, parseVars>>

(***************************************************************************)
(* Specifications                                                          *)
(***************************************************************************)
\* a call of try_parse_json(json_str) returns
parse_call ==
    /\ pc = "parser"
    /\ parsed' = try_parse_json(Str(json_str))
    /\ pc' = "parsed"
    /\ UNCHANGED <<stage_model, stage_results, company_details, questions, answers,
                   stage, result, runs, failed_stage, json_str>>
    /\ UNCHANGED <<envVars, methodVars, logVars, wrapVars>>

\* everything but the environment, pc, the wrapper arguments and json_str
Blank ==
    /\ stage_model = [k \in 1..4 |-> NoModel]
    /\ stage_results = Dict(<<>>)
    /\ company_details = NoneV
    /\ questions = NoneV
    /\ answers = NoneV
    /\ stage = 0
    /\ result = "none"
    /\ runs = 0
    /\ invoked = <<>>
    /\ writes = <<>>
    /\ responded = <<>>
    /\ reply = NoneV
    /\ failed_stage = 0
    /\ prompt = <<>>
    /\ attempt = 0
    /\ response = NoneV
    /\ attempts = 0
    /\ failures = 0
    /\ waits = <<>>
    /\ slept = 0
    /\ parsed = NoneV
    /\ extracted = Raises
    /\ saved = NoneV
    /\ printed = "none"

\* the program before CompanyAuditPipeline is constructed
Init ==
    /\ usable \in UsableChoices
    /\ stage_specs \in StageModelChoices
    /\ pc = "new"
    /\ max_retries = 0
    /\ initial_wait = 0
    /\ wpc = "off"
    /\ json_str = <<>>
    /\ content = NoneV
    /\ Blank

Next ==
    \/ construct_ok
    \/ construct_raises
    \/ run_full_pipeline
    \/ \E c \in Contents : invoke_returns(c)
    \/ invoke_raises
    \/ backoff_sleep
    \/ stage_1_return
    \/ stage_2_return
    \/ stage_3_return
    \/ stage_4_return

Spec == Init /\ [][Next]_vars

\* one instance under the shipped configuration, its runs and the calls of
\* save_results and print_summary between them
InitInstance ==
    /\ usable = Providers
    /\ stage_specs = STAGE_MODELS
    /\ pc = "new"
    /\ max_retries = 0
    /\ initial_wait = 0
    /\ wpc = "off"
    /\ json_str = <<>>
    /\ content = NoneV
    /\ Blank

NextInstance ==
    \/ construct_ok
    \/ run_full_pipeline
    \/ run_full_pipeline_again
    \/ \E c \in InstanceContents : invoke_returns(c)
    \/ invoke_raises
    \/ backoff_sleep
    \/ stage_1_return
    \/ stage_2_return
    \/ stage_3_return
    \/ stage_4_return
    \/ save_results
    \/ print_summary

SpecInstance == InitInstance /\ [][NextInstance]_vars

\* the contents the oracle answers with in the runs checked for termination
LiveContents == { Str(<<"x">>), Str(<<>>), Num(<<"7">>) }

\* the steps that are not a call by the client: an oracle call returns or
\* raises, a backoff wait ends, a stage returns
Progress ==
    \/ \E c \in LiveContents : invoke_returns(c)
    \/ invoke_raises
    \/ backoff_sleep
    \/ stage_1_return
    \/ stage_2_return
    \/ stage_3_return
    \/ stage_4_return

NextLive ==
    \/ construct_ok
    \/ runs = 0 /\ run_full_pipeline
    \/ Progress

\* the first run of one instance when every oracle call ends, every backoff
\* wait ends and the interpreter goes on after each of them
SpecLive == InitInstance /\ [][NextLive]_vars /\ WF_vars(Progress)

\* the values a client passes to a stage that it calls on its own
Arguments == { NoneV, Str(<<>>), Dict(<<>>), Str(<<"x">>) }

\* a client calls stage k on its own with the prior results cd, q and a: the
\* stage returns None from its entry checks, or builds its prompt and calls
\* the wrapper
DirectCall(k, cd, q, a, ready, p, w) ==
    /\ runs < MaxCalls
    /\ runs' = runs + 1
    /\ company_details' = cd
    /\ questions' = q
    /\ answers' = a
    /\ stage' = k
    /\ invoked' = <<>>
    /\ writes' = <<>>
    /\ responded' = <<>>
    /\ reply' = NoneV
    /\ failed_stage' = 0
    /\ IF ready
       THEN pc' = "call" /\ result' = "none" /\ EnterWrapper(p, 3, w)
       ELSE pc' = "idle" /\ result' = "False" /\ UNCHANGED wrapVars
    /\ UNCHANGED <<stage_model, stage_results>>
    /\ UNCHANGED <<envVars, methodVars, parseVars>>

\* pipeline.stage_2_generate_questions(company_details)
stage_2_generate_questions ==
    /\ pc = "idle"
    /\ \E cd \in Arguments :
        DirectCall(2, cd, questions, answers, stage_2_ready(cd), prompt_2(cd), 2)

\* pipeline.stage_3_answer_questions(company_details, questions)
stage_3_answer_questions ==
    /\ pc = "idle"
    /\ \E cd \in Arguments : \E q \in Arguments :
        DirectCall(3, cd, q, answers, stage_3_ready(cd, q), prompt_3(cd, q), 3)

\* pipeline.stage_4_score_results(questions, answers)
stage_4_score_results ==
    /\ pc = "idle"
    /\ \E q \in Arguments : \E a \in Arguments :
        DirectCall(4, company_details, q, a, stage_4_ready(q, a), prompt_4(q, a), 2)

\* the try block of stage k from the return of its wrapper call on
StageBody(k, resp, sr) ==
    CASE k = 2 -> stage_2_body(resp, sr)
      [] k = 3 -> stage_3_body(resp, sr)
      [] k = 4 -> stage_4_body(resp, sr)

\* a stage that a client called on its own returns: "False" stands for None
stage_return ==
    /\ pc = "call" /\ wpc = "returned"
    /\ \E out \in {StageBody(stage, response, stage_results)} :
          /\ Leave(stage, out)
          /\ result' = IF out.ret = NoneV THEN "False" ELSE "True"
    /\ pc' = "idle"
    /\ UNCHANGED wrapVars
    /\ UNCHANGED <<company_details, questions, answers, stage, stage_model, runs, invoked, reply>>
    /\ UNCHANGED <<envVars, methodVars, parseVars>>

NextStage ==
    \/ construct_ok
    \/ stage_2_generate_questions
    \/ stage_3_answer_questions
    \/ stage_4_score_results
    \/ \E c \in LiveContents : invoke_returns(c)
    \/ invoke_raises
    \/ backoff_sleep
    \/ stage_return

\* stages 2 to 4 of one instance under the shipped configuration, each
\* called on its own
SpecStage == InitInstance /\ [][NextStage]_vars

\* a call of invoke_model_with_retry on its own
InitRetry ==
    /\ usable = Providers
    /\ stage_specs = STAGE_MODELS
    /\ pc = "wrapper"
    /\ max_retries \in 0..MaxRetries
    /\ initial_wait \in 0..MaxInitialWait
    /\ wpc = "loop"
    /\ json_str = <<>>
    /\ content = NoneV
    /\ Blank

NextRetry ==
    \/ \E c \in Contents : invoke_returns(c)
    \/ invoke_raises
    \/ backoff_sleep
    \/ loop_exhausted

SpecRetry == InitRetry /\ [][NextRetry]_vars

\* a call of try_parse_json on its own
InitParse ==
    /\ usable = Providers
    /\ stage_specs = STAGE_MODELS
    /\ pc = "parser"
    /\ max_retries = 0
    /\ initial_wait = 0
    /\ wpc = "off"
    /\ json_str \in Texts(MaxChunks)
    /\ content = NoneV
    /\ Blank

NextParse == parse_call

SpecParse == InitParse /\ [][NextParse]_vars

\* a call of extract_text_content(content) returns or raises
extract_call ==
    /\ pc = "extractor"
    /\ extracted' = extract_text_content(content)
    /\ pc' = "extracted"
    /\ UNCHANGED <<stage_model, stage_results, company_details, questions, answers,
                   stage, result, runs, failed_stage>>
    /\ UNCHANGED <<envVars, logVars, wrapVars, parseVars, content, saved, printed>>

\* try_parse_json on what extract_text_content returned, as the stages
\* 2 to 4 call it
parse_extracted ==
    /\ pc = "extracted"
    /\ extracted.ok
    /\ parsed' = try_parse_json(extracted.val)
    /\ pc' = "parsed_text"
    /\ UNCHANGED <<stage_model, stage_results, company_details, questions, answers,
                   stage, result, runs, failed_stage, json_str>>
    /\ UNCHANGED <<envVars, logVars, wrapVars, methodVars>>

\* a call of try_parse_json on the body itself
parse_body ==
    /\ pc = "extractor"
    /\ parsed' = try_parse_json(content)
    /\ pc' = "parsed_body"
    /\ UNCHANGED <<stage_model, stage_results, company_details, questions, answers,
                   stage, result, runs, failed_stage, json_str>>
    /\ UNCHANGED <<envVars, logVars, wrapVars, methodVars>>

\* the calls of extract_text_content and try_parse_json on a response body
InitExtract ==
    /\ usable = Providers
    /\ stage_specs = STAGE_MODELS
    /\ pc = "extractor"
    /\ max_retries = 0
    /\ initial_wait = 0
    /\ wpc = "off"
    /\ json_str = <<>>
    /\ content \in Bodies
    /\ Blank

NextExtract ==
    \/ extract_call
    \/ parse_extracted
    \/ parse_body

SpecExtract == InitExtract /\ [][NextExtract]_vars

\* a call of try_parse_json on a response that carries a document
InitRecover ==
    /\ usable = Providers
    /\ stage_specs = STAGE_MODELS
    /\ pc = "parser"
    /\ max_retries = 0
    /\ initial_wait = 0
    /\ wpc = "off"
    /\ json_str \in {c.text : c \in WrappedCases} \cup {c.text : c \in EmbeddedCases}
    /\ content = NoneV
    /\ Blank

SpecRecover == InitRecover /\ [][NextParse]_vars

(***************************************************************************)
(* Properties                                                              *)
(***************************************************************************)
\* the keys of a dict in insertion order
Keys(d) == [i \in 1..Len(d.kids) |-> d.kids[i].s]

\* the run has returned
Returned == pc = "idle" /\ result # "none"

\* C1: once the retry wrapper has returned None for stage k, the run has
\* returned False and has invoked the oracle of no stage after k.
C1_HaltOnWrapperFailure ==
    failed_stage # 0 =>
        /\ pc = "idle"
        /\ result = "False"
        /\ \A i \in 1..Len(invoked) : invoked[i] <= failed_stage

C1_Witness ==
    /\ failed_stage = 2
    /\ result = "False"
    /\ invoked = <<1, 2>>
    /\ attempts = 3

\* C2: in the first run of an instance, when the wrapper call of stage k has
\* returned None after its retries, stage_results holds exactly the keys of
\* the stages 1..k-1.
C2_KeysBeforeFailedStage ==
    (runs = 1 /\ failed_stage # 0) =>
        Keys(stage_results) = SubSeq(StageKeys, 1, failed_stage - 1)

C2_Witness ==
    /\ runs = 1
    /\ failed_stage = 2
    /\ failures = 3
    /\ Keys(stage_results) = <<CompanyDetailsKey>>

\* the value stage k left under its key
StoredBy(k) == GetKey(stage_results, StageKeys[k])

\* the run returned False at stage k although its wrapper call returned a
\* response from which the stage stored a text or a structured value
HaltedOnValue ==
    /\ Returned
    /\ result = "False"
    /\ runs = 1
    /\ response # NoneV
    /\ HasKey(stage_results, StageKeys[stage])
    /\ IsStr(StoredBy(stage)) \/ IsStructured(StoredBy(stage))

\* C3: a stage whose invocation returned a response counts as succeeded
\* whatever text or structured value was recovered from it, an empty one
\* included: the run never halts at such a stage.
C3_ResponseNeverHalts == ~HaltedOnValue

\* C4: run_full_pipeline returns True only when, in that run, the wrapper
\* call of each of the four stages returned a response, in stage order, and
\* the four keys were written in stage order.
C4_TrueOnlyAfterFourStages ==
    result = "True" =>
        /\ responded = <<1, 2, 3, 4>>
        /\ writes = StageKeys
        /\ invoked = <<1, 2, 3, 4>>
        /\ failed_stage = 0

C4_Witness ==
    /\ Returned
    /\ result = "True"
    /\ writes = StageKeys
    /\ IsDict(StoredBy(4))

\* C5: when the specification of at least one stage does not resolve,
\* construction raises: there is never an instance, a run or an oracle
\* invocation, also when stage 4 is the only stage that does not resolve.
C5_ConstructionFailsFast ==
    (pc # "new" /\ \E k \in 1..4 : ResolveStages[k] = NoModel) =>
        /\ pc = "raised"
        /\ runs = 0
        /\ invoked = <<>>
        /\ wpc = "off"

C5_Witness ==
    /\ pc = "raised"
    /\ stage_model[4] = NoModel
    /\ \A k \in 1..3 : stage_model[k] # NoModel

\* the capability a specification names is disabled in, or absent from,
\* MODELS_CONFIG
DisabledOrAbsent(model_spec) ==
    \/ ProviderOf(model_spec) \notin DOMAIN MODELS_CONFIG
    \/ ~MODELS_CONFIG[ProviderOf(model_spec)].enabled

\* C6: a specification whose capability is disabled or absent resolves to
\* None, with or without a variant, so that no instance is constructed with
\* it and no stage invokes an oracle of a disabled capability.
C6_DisabledNeverResolves ==
    /\ \A k \in 1..4 :
          (pc # "new" /\ DisabledOrAbsent(stage_specs[k])) => pc = "raised"
    /\ \A i \in 1..Len(invoked) : ~DisabledOrAbsent(stage_specs[invoked[i]])

\* the wrapper has returned and every attempt it made raised
ReturnedAllFailed == wpc = "returned" /\ failures = attempts

\* C7: when every attempt fails and max_retries = n >= 1, the wrapper makes
\* exactly n attempts and then returns None.
C7_ExactlyNAttemptsThenNone ==
    /\ (ReturnedAllFailed /\ max_retries >= 1) =>
          attempts = max_retries /\ response = NoneV
    /\ (wpc # "returned" /\ failures = attempts /\ max_retries >= 1) =>
          attempts < max_retries
    /\ attempts <= max_retries

C7_Witness ==
    /\ ReturnedAllFailed
    /\ max_retries = 3
    /\ attempts = 3
    /\ response = NoneV

\* the wrapper has returned the response of a successful attempt
ReturnedResponse == wpc = "returned" /\ response # NoneV

\* C8: when the first success is attempt k, the wrapper returns the response
\* of that attempt after exactly k attempts (the k-1 failed ones and it) and
\* k-1 waits: nothing follows the successful attempt.
C8_ReturnsFirstSuccess ==
    ReturnedResponse =>
        /\ response = Msg(reply)
        /\ attempts = failures + 1
        /\ attempts <= max_retries
        /\ attempt = failures
        /\ Len(waits) = failures

C8_Witness ==
    /\ ReturnedResponse
    /\ attempts = 2
    /\ failures = 1
    /\ Len(waits) = 1
    /\ max_retries = 4

\* w + 2w + ... : the first n waits together
RECURSIVE SumSeq(_)
SumSeq(sq) == IF Len(sq) = 0 THEN 0 ELSE sq[1] + SumSeq(Tail(sq))

\* C9: the i-th wait (after the failure of zero-based attempt i-1) lasts
\* initial_wait * 2^(i-1), there is one wait after each failure but the last
\* possible one, and none after it: fail, fail, succeed with max_retries = 3
\* blocks for initial_wait * 3, n failures for initial_wait * (2^(n-1) - 1).
C9_ExponentialBackoff ==
    /\ \A i \in 1..Len(waits) : waits[i] = initial_wait * 2 ^ (i - 1)
    /\ slept = SumSeq(waits)
    /\ Len(waits) <= failures
    /\ (wpc \in {"loop", "returned"} /\ failures < max_retries) => Len(waits) = failures
    /\ (ReturnedAllFailed /\ max_retries >= 1) =>
          /\ Len(waits) = max_retries - 1
          /\ slept = initial_wait * (2 ^ (max_retries - 1) - 1)
    /\ (ReturnedResponse /\ max_retries = 3 /\ failures = 2) =>
          slept = initial_wait * 1 + initial_wait * 2

C9_Witness ==
    /\ ReturnedAllFailed
    /\ max_retries = 4
    /\ initial_wait = 3
    /\ waits = <<3, 6, 12>>
    /\ slept = 21

\* C10: when none of the six strategies returns a value, try_parse_json
\* returns the text it was given, character for character.
C10_PassthroughIsOriginal ==
    (pc = "parsed" /\ StrategyUsed(json_str) = 7) => parsed = Str(json_str)

C10_Witness ==
    /\ pc = "parsed"
    /\ StrategyUsed(json_str) = 7
    /\ clean_json_string(json_str) # json_str
    /\ Len(clean_json_string(json_str)) > 0
    /\ parsed = Str(json_str)

\* C11: for every text, try_parse_json returns a structured value (an object
\* or an array) or the text it was given: never null, a number, a boolean
\* or another text.
C11_StructuredOrOriginal ==
    pc = "parsed" => IsStructured(parsed) \/ parsed = Str(json_str)

\* C12: for a well-formed object or array document, fenced or not, with
\* comment lines interleaved or not, try_parse_json returns exactly the
\* value of the document, not a nested part of it.
C12_WrappedDocumentRecovered ==
    pc = "parsed" =>
        \A c \in WrappedCases : c.text = json_str => parsed = DocValue(c.doc)

\* C13: for a well-formed object between a prefix and a suffix of prose,
\* try_parse_json returns exactly the object.
C13_EmbeddedObjectRecovered ==
    pc = "parsed" =>
        \A c \in EmbeddedCases : c.text = json_str => parsed = json_loads(c.obj).val

\* C14: try_parse_json applied to a value that is not text (an object, an
\* array or any other value) returns that value unchanged.
C14_NonTextUnchanged ==
    /\ (pc = "parsed_body" /\ ~IsStr(content)) => parsed = content
    /\ (pc = "parsed_text" /\ ~IsStr(extracted.val)) => parsed = extracted.val

C14_Witness ==
    /\ pc = "parsed_body"
    /\ IsList(content)
    /\ Len(content.kids) = 2
    /\ parsed = content

\* C15: extract_text_content raises nothing and returns a str for every
\* response body, whatever is stored under the text and content keys; for a
\* str body it returns that str.
C15_ExtractorTotalStr ==
    pc = "extracted" =>
        /\ extracted.ok
        /\ IsStr(extracted.val)
        /\ IsStr(content) => extracted.val = content

\* the stage that received the last response has just returned: reply is
\* the content of that response
Handled ==
    /\ Len(responded) > 0
    /\ \/ pc = "idle" /\ response # NoneV
       \/ pc = "stage" /\ attempts = 0

\* C20: for every stage k of 1..4 whose invocation returned a response, the
\* value stored under the key of stage k is
\* try_parse_json(extract_text_content(content of the response)).
C20_EveryStageStoresParsed ==
    (Handled /\ extract_text_content(reply).ok) =>
        /\ HasKey(stage_results, StageKeys[responded[Len(responded)]])
        /\ StoredBy(responded[Len(responded)]) =
               try_parse_json(extract_text_content(reply).val)

\* the prompt interpolates the value v, as str(v) or as json.dumps(v, indent=2)
Shows(v) ==
    \E i \in 1..Len(prompt) :
        /\ ~prompt[i].fixed
        /\ prompt[i].text \in {PyStr(v), JsonDumps(v, 0)}

\* stage k is at its oracle with the prompt it built
AtOracle(k) == pc = "stage" /\ stage = k /\ wpc \in {"loop", "sleep"}

\* C19: the prompt of stage 2 contains the stored result of stage 1, that of
\* stage 3 the stored results of stages 1 and 2, and that of stage 4 the
\* stored results of stages 2 and 3.
C19_PromptShowsPriorResults ==
    /\ AtOracle(2) => Shows(StoredBy(1))
    /\ AtOracle(3) => Shows(StoredBy(1)) /\ Shows(StoredBy(2))
    /\ AtOracle(4) => Shows(StoredBy(2)) /\ Shows(StoredBy(3))

\* the document holds, key by key, the stored value when it is not text and
\* the wrapper of the text when it is
Verbatim(doc, sr) ==
    /\ Keys(doc) = Keys(sr)
    /\ \A i \in 1..Len(sr.kids) :
          doc.kids[i].kids[1] =
             IF IsStr(sr.kids[i].kids[1]) THEN Wrapper(sr.kids[i].kids[1])
             ELSE sr.kids[i].kids[1]

\* C16: save_results persists under every key of stage_results the stored
\* value itself when it is structured and the wrapper of the text, verbatim,
\* when it is text, and leaves stage_results unchanged.
C16_PersistedIsStoredOrWrapped ==
    [][(pc = "idle" /\ pc' = "idle" /\ saved' # saved) =>
          /\ Verbatim(saved', stage_results)
          /\ stage_results' = stage_results]_vars

\* the value under the key of stage j, once there, stays as it is
KeyKept(j) ==
    HasKey(stage_results, StageKeys[j]) =>
        /\ HasKey(stage_results', StageKeys[j])
        /\ GetKey(stage_results', StageKeys[j]) = StoredBy(j)

\* C17: once a stage key has been written, no later operation on the
\* instance (a later stage, save_results, print_summary, a further
\* run_full_pipeline call) changes or removes its value.
C17_WriteOncePerKey == [][\A j \in 1..4 : KeyKept(j)]_vars

\* C18: a stage that fails leaves the entries of the earlier stages as they
\* were, and after run_full_pipeline has returned False the mapping holds
\* the entry of every stage before the one that failed.
C18_FailedStageKeepsEarlier ==
    /\ [][(pc = "stage" /\ result' = "False") =>
             \A j \in 1..4 : j < stage => KeyKept(j)]_vars
    /\ []((pc = "idle" /\ result = "False") =>
             \A j \in 1..4 : j < stage => HasKey(stage_results, StageKeys[j]))

C18_Witness ==
    /\ pc = "idle"
    /\ result = "False"
    /\ stage = 3
    /\ failed_stage = 3
    /\ runs = 2
    /\ Keys(stage_results) = <<CompanyDetailsKey, QuestionsKey, AnswersKey, ScoresKey>>

\* the sequence p is a prefix of the sequence q
IsPrefix(p, q) == Len(p) <= Len(q) /\ SubSeq(q, 1, Len(p)) = p

\* C22: in every state of any sequence of runs of one instance, the keys of
\* stage_results are a prefix of company_details, questions, answers, scores.
C22_KeysArePrefix == IsPrefix(Keys(stage_results), StageKeys)

C22_Witness ==
    /\ runs = 2
    /\ pc = "stage"
    /\ stage = 2
    /\ Keys(stage_results) = SubSeq(StageKeys, 1, 3)

\* C23: when a run on a fresh instance has returned False at stage k,
\* stage_results holds no entry for stage k.
C23_NoEntryForFailedStage ==
    (Returned /\ result = "False" /\ runs = 1) =>
        ~HasKey(stage_results, StageKeys[stage])

\* the stages in s are in strictly increasing order
Increasing(s) == \A i \in 1..(Len(s) - 1) : s[i] < s[i + 1]

\* the key k is among the keys written in the run
Written(k) == \E i \in 1..Len(writes) : writes[i] = k

\* C24: within a run the oracles are invoked in stage order, the oracle of
\* stage k only after the result of stage k - 1 was stored, none of an
\* earlier stage after it, and each at most 3 times.
C24_InvocationsOrderedAndBounded ==
    /\ Increasing(invoked)
    /\ \A i \in 1..Len(invoked) : invoked[i] > 1 => Written(StageKeys[invoked[i] - 1])
    /\ \A i \in 1..Len(invoked) : invoked[i] <= stage
    /\ pc = "stage" => attempts <= 3

C24_Witness ==
    /\ pc = "stage"
    /\ stage = 4
    /\ invoked = <<1, 2, 3, 4>>
    /\ attempts = 3
    /\ failures = 3

\* what strategy u of 1..6 returns on the text s, and the text for u = 7
ResultOf(u, s) ==
    CASE u = 1 -> Strategy1(s).val
      [] u = 2 -> Strategy2(s).val
      [] u = 3 -> Strategy3(s).val
      [] u = 4 -> Strategy4(s).val
      [] u = 5 -> Strategy5(s).val
      [] u = 6 -> Strategy6(s).val
      [] OTHER -> Str(s)

\* C25: try_parse_json returns the result of the first strategy, in the
\* order direct parse, fence stripping, brace extraction, bracket extraction,
\* comment-line stripping, substring scan, passthrough, that yields a value.
C25_FirstStrategyInOrder ==
    pc = "parsed" => parsed = ResultOf(StrategyUsed(json_str), json_str)

C25_Witness ==
    /\ pc = "parsed"
    /\ StrategyUsed(json_str) = 3
    /\ Strategy4(json_str).ok
    /\ Strategy4(json_str).val # parsed

\* the substrings cleaned[a..b] that load as an object or an array
Qualifying(cleaned) ==
    { p \in (1..Len(cleaned)) \X (1..Len(cleaned)) :
         /\ p[1] <= p[2]
         /\ json_loads(SubSeq(cleaned, p[1], p[2])).ok
         /\ IsStructured(json_loads(SubSeq(cleaned, p[1], p[2])).val) }

\* p is before q in the order start ascending, then end ascending
ScanBefore(p, q) == p[1] < q[1] \/ (p[1] = q[1] /\ p[2] <= q[2])

\* the value of the first qualifying substring, the text itself when none
FirstQualifying(cleaned, q, text) ==
    IF q = {} THEN Str(text)
    ELSE json_loads(SubSeq(cleaned,
                           (CHOOSE p \in q : \A r \in q : ScanBefore(p, r))[1],
                           (CHOOSE p \in q : \A r \in q : ScanBefore(p, r))[2])).val

\* C26: when strategies 1 to 5 failed, the substring scan makes at most
\* n(n+1)/2 parse attempts, n the length of the fence-stripped text, and
\* returns the value of the first substring, by start and then by end, that
\* loads as an object or an array; when there is none the text is returned.
C26_ScanBoundedAndFirst ==
    (pc = "parsed" /\ StrategyUsed(json_str) >= 6) =>
        /\ 2 * LoadsInScan(clean_json_string(json_str), 1) <=
              Len(clean_json_string(json_str)) * (Len(clean_json_string(json_str)) + 1)
        /\ parsed = FirstQualifying(clean_json_string(json_str),
                                    Qualifying(clean_json_string(json_str)), json_str)

C26_Witness ==
    /\ pc = "parsed"
    /\ StrategyUsed(json_str) = 6
    /\ ~ScanEnds(clean_json_string(json_str), 1, 1).ok
    /\ IsStructured(parsed)

\* the piece a fragment contributes, as a sequence of at most one value
PieceOf(f) ==
    IF IsStr(f) THEN <<f>>
    ELSE IF IsDict(f) /\ HasKey(f, TextKey) THEN <<GetKey(f, TextKey)>>
    ELSE IF IsDict(f) /\ HasKey(f, ContentKey) THEN <<GetKey(f, ContentKey)>>
    ELSE <<>>

\* the pieces of the fragments fs, in their order
RECURSIVE PiecesOf(_)
PiecesOf(fs) == IF Len(fs) = 0 THEN <<>> ELSE PieceOf(fs[1]) \o PiecesOf(Tail(fs))

\* the pieces ps, one at least, with a newline between neighbours
RECURSIVE NewlineJoined(_)
NewlineJoined(ps) ==
    IF Len(ps) = 1 THEN ps[1].s
    ELSE ps[1].s \o <<"\n">> \o NewlineJoined(Tail(ps))

\* what the claim C27 says extract_text_content returns for the fragments fs
JoinedOrWhole(body, ps) ==
    IF Len(ps) = 0 THEN Str(PyStr(body)) ELSE Str(NewlineJoined(ps))

\* C27: for a list body extract_text_content returns the pieces of its
\* fragments joined by newlines, in order (a str fragment itself, a keyed
\* bag its text value, else its content value, any other fragment nothing),
\* and the textual representation of the body when there is no piece.
C27_SequenceJoinsPieces ==
    (pc = "extracted" /\ IsList(content)) =>
        /\ extracted.ok
        /\ extracted.val = JoinedOrWhole(content, PiecesOf(content.kids))

\* C29: try_parse_json is idempotent on text: parsing what it returned for a
\* text returns the same value again; a returned text stays that text.
C29_ParseIdempotent == pc = "parsed" => try_parse_json(parsed) = parsed

\* what run_full_pipeline received from stage k; it keeps none for stage 4
ReceivedFrom(k) ==
    CASE k = 1 -> company_details
      [] k = 2 -> questions
      [] k = 3 -> answers
      [] OTHER -> NoneV

\* the first run has returned False at a stage whose oracle had responded
\* and which returned None: with the response bodies of SpecInstance, whose
\* texts and parsed values are all truthy, an error was raised in the stage
FailedAfterResponse ==
    /\ Returned
    /\ result = "False"
    /\ runs = 1
    /\ Len(responded) > 0
    /\ responded[Len(responded)] = stage
    /\ ReceivedFrom(stage) = NoneV

\* C30: when an error is raised inside a stage after its oracle responded,
\* the run returns False, no later stage executes, and stage_results holds
\* no entry for that stage.
C30_ErrorLeavesNoEntry ==
    FailedAfterResponse =>
        /\ \A i \in 1..Len(invoked) : invoked[i] <= stage
        /\ ~HasKey(stage_results, StageKeys[stage])

\* C28: when every oracle call returns or fails and every backoff wait
\* ends, a run_full_pipeline call in progress eventually returns True or
\* False.
C28_RunEventuallyReturns == (pc = "stage") ~> (pc = "idle" /\ result # "none")

C28_Witness ==
    /\ pc = "idle"
    /\ result = "True"
    /\ attempts = 3
    /\ failures = 2
    /\ slept > 0

\* the stage in execution lacks a prior result named by its arguments
Missing ==
    CASE stage = 2 -> ~Truthy(company_details)
      [] stage = 3 -> ~Truthy(company_details) \/ ~Truthy(questions)
      [] stage = 4 -> ~Truthy(questions) \/ ~Truthy(answers)
      [] OTHER -> FALSE

\* C21: a call of stage 2, 3 or 4 in which a prior result the stage
\* consumes is None or empty returns failure without invoking its oracle
\* and without writing to stage_results; for stage 4 the prior results are
\* those of stage 2 and of stage 3.
C21_MissingInputReturnsFailure ==
    (runs >= 1 /\ Missing) =>
        /\ pc = "idle"
        /\ result = "False"
        /\ invoked = <<>>
        /\ writes = <<>>

=============================================================================
